---- MODULE Spec2Model ----
(***************************************************************************)
(* The three react-instantsearch connectors connectHierarchicalMenu,       *)
(* connectMultiRange and connectSortBy, as operators over a search-state   *)
(* tree, and the host application that calls them.                         *)
(*                                                                         *)
(* A JavaScript string is a sequence of one-character strings, so that the *)
(* code's split, indexOf, slice, parseInt and template strings are         *)
(* computed and not assumed.  A JavaScript object is a function from the   *)
(* paths of its (nested) own properties to nodes; a path is a sequence of  *)
(* keys.  Keys hold no '.', so lodash's dotted path strings and its path   *)
(* arrays name the same property, except where the code puts a dotted      *)
(* string inside a path array (HM_cleanUp).                                *)
(***************************************************************************)
EXTENDS Integers, Sequences, FiniteSets, TLC

VARIABLES searchState, last, steps, codec, render

vars == <<searchState, last, steps, codec, render>>

(***************************************************************************)
(* Bounds of the model.                                                    *)
(***************************************************************************)
\* connector calls the host makes in one run
MaxSteps == 3
\* length of props.items of a multi-range widget
MaxItems == 2
\* the bounds of the items range over -MaxNegative .. MaxBound
MaxBound == 20
MaxNegative == 2

(***************************************************************************)
(* JavaScript values.                                                      *)
(***************************************************************************)
JNull == [t |-> "null"]

JUndefined == [t |-> "undefined"]

JNaN == [t |-> "NaN"]

JPosInf == [t |-> "Infinity"]

JNegInf == [t |-> "-Infinity"]

JStr(s) == [t |-> "string", s |-> s]

JNum(n) == [t |-> "number", n |-> n]

\* ToBoolean
Truthy(v) ==
  CASE v.t = "string" -> Len(v.s) > 0
    [] v.t = "number" -> v.n # 0
    [] v.t \in {"Infinity", "-Infinity"} -> TRUE
    [] OTHER -> FALSE

\* a > b on numbers, infinities and NaN only
JGt(a, b) ==
  CASE a.t = "NaN" \/ b.t = "NaN" -> FALSE
    [] a.t = "Infinity" -> b.t # "Infinity"
    [] a.t = "-Infinity" -> FALSE
    [] b.t = "Infinity" -> FALSE
    [] b.t = "-Infinity" -> TRUE
    [] OTHER -> a.n > b.n

JLt(a, b) == JGt(b, a)

(***************************************************************************)
(* Strings.                                                                *)
(***************************************************************************)
Digits == <<"0", "1", "2", "3", "4", "5", "6", "7", "8", "9">>

IsDigit(c) == \E i \in 1..10 : Digits[i] = c

DigitValue(c) == (CHOOSE i \in 1..10 : Digits[i] = c) - 1

RECURSIVE NatToStr(_)
NatToStr(n) == IF n < 10 THEN <<Digits[n + 1]>>
               ELSE NatToStr(n \div 10) \o <<Digits[(n % 10) + 1]>>

\* String(n) for an integer n
NumToStr(n) == IF n < 0 THEN <<"-">> \o NatToStr(0 - n) ELSE NatToStr(n)

StartsWithAt(s, sub, i) ==
  /\ i + Len(sub) - 1 <= Len(s)
  /\ \A k \in 1..Len(sub) : s[i + k - 1] = sub[k]

\* s.indexOf(sub), 0-based, -1 when absent
IndexOf(s, sub) ==
  LET hits == {i \in 1..(Len(s) + 1) : StartsWithAt(s, sub, i)}
  IN IF hits = {} THEN -1 ELSE (CHOOSE i \in hits : \A j \in hits : i <= j) - 1

\* s.lastIndexOf(sub), 0-based, -1 when absent
LastIndexOf(s, sub) ==
  LET hits == {i \in 1..(Len(s) + 1) : StartsWithAt(s, sub, i)}
  IN IF hits = {} THEN -1 ELSE (CHOOSE i \in hits : \A j \in hits : i >= j) - 1

\* s.slice(0, n) for 0 <= n
SliceTo(s, n) == SubSeq(s, 1, IF n < Len(s) THEN n ELSE Len(s))

\* s.split(':') : the pieces between the colons
RECURSIVE Split(_)
Split(s) ==
  LET i == IndexOf(s, <<":">>)
  IN IF i = -1 THEN <<s>>
     ELSE <<SubSeq(s, 1, i)>> \o Split(SubSeq(s, i + 2, Len(s)))

\* the value of the longest run of digits that s starts with
RECURSIVE DigitsPrefix(_, _)
DigitsPrefix(s, acc) ==
  IF Len(s) = 0 \/ ~IsDigit(Head(s)) THEN acc
  ELSE DigitsPrefix(Tail(s), 10 * acc + DigitValue(Head(s)))

\* parseInt(s, 10)
ParseInt(s) ==
  LET neg == Len(s) > 0 /\ Head(s) = "-"
      body == IF Len(s) > 0 /\ Head(s) \in {"-", "+"} THEN Tail(s) ELSE s
  IN IF Len(body) = 0 \/ ~IsDigit(Head(body)) THEN JNaN
     ELSE JNum(IF neg THEN 0 - DigitsPrefix(body, 0) ELSE DigitsPrefix(body, 0))

\* Number(v) for a string or undefined: '' is 0, a decimal integer is its value
ToNumber(v) ==
  IF v.t = "undefined" THEN JNaN
  ELSE LET s == v.s
           body == IF Len(s) > 0 /\ Head(s) \in {"-", "+"} THEN Tail(s) ELSE s
       IN IF Len(s) = 0 THEN JNum(0)
          ELSE IF Len(body) > 0 /\ \A k \in 1..Len(body) : IsDigit(body[k])
               THEN ParseInt(s)
               ELSE JNaN

(***************************************************************************)
(* Objects: a tree is a function from paths to nodes.                      *)
(***************************************************************************)
Obj == [k |-> "object", v |-> <<>>]

Leaf(s) == [k |-> "string", v |-> s]

EmptyObject == <<>>

IsPrefix(p, q) == Len(p) <= Len(q) /\ SubSeq(q, 1, Len(p)) = p

\* lodash has(object, path)
Has(t, p) == p \in DOMAIN t

Restrict(t, S) == [q \in S |-> t[q]]

\* the own keys of the object
Keys(t) == {q[1] : q \in DOMAIN t}

\* object.p as an object of its own; {} when it is undefined (as a spread takes it)
SubObj(t, p) ==
  LET under == {q \in DOMAIN t : IsPrefix(p, q) /\ q # p}
  IN [r \in {SubSeq(q, Len(p) + 1, Len(q)) : q \in under} |-> t[p \o r]]

\* {...a, ...b}
ObjSpread(a, b) ==
  LET keep == {q \in DOMAIN a : q[1] \notin Keys(b)}
  IN [q \in keep \cup DOMAIN b |-> IF q \in DOMAIN b THEN b[q] ELSE a[q]]

\* {[key]: value} for a string value
KeyLeaf(key, s) == [q \in {<<key>>} |-> Leaf(s)]

\* {[key]: value} for an object value
KeyObj(key, o) ==
  [q \in {<<key>>} \cup {<<key>> \o r : r \in DOMAIN o} |->
     IF q = <<key>> THEN Obj ELSE o[Tail(q)]]

\* lodash omit(object, path): a copy without the property at the path (a
\* dotted string is a deep path, as from lodash 4.17 on)
Omit(t, p) == Restrict(t, {q \in DOMAIN t : ~IsPrefix(p, q)})

\* lodash isEmpty(object.key): undefined, '' and {} are empty
IsEmptyAt(t, key) ==
  \/ ~Has(t, <<key>>)
  \/ t[<<key>>].k = "object" /\ DOMAIN SubObj(t, <<key>>) = {}
  \/ t[<<key>>].k = "string" /\ Len(t[<<key>>].v) = 0

(***************************************************************************)
(* The host context of a widget.                                           *)
(***************************************************************************)
SingleIndex == [multiIndexContext |-> FALSE, targettedIndex |-> "", mainTargettedIndex |-> "index"]

MultiIndex(i) == [multiIndexContext |-> TRUE, targettedIndex |-> i, mainTargettedIndex |-> "index"]

getIndex(context) ==
  IF context.multiIndexContext THEN context.targettedIndex ELSE context.mainTargettedIndex

hasMultipleIndex(context) == context.multiIndexContext

(***************************************************************************)
(* connectHierarchicalMenu.                                                *)
(***************************************************************************)
HM_namespace == "hierarchicalMenu"

HM_getId(props) == props.attributes[1]

\* HM_getCurrentRefinement without its test for the stored empty string
HM_getCurrentRefinement_KeepsEmpty(props, state, context) ==
  LET id == HM_getId(props)
      index == getIndex(context)
      refinements ==
        \/ hasMultipleIndex(context) /\ Has(state, <<"indices", index, HM_namespace, id>>)
        \/ ~hasMultipleIndex(context) /\ Has(state, <<HM_namespace, id>>)
      stored == IF hasMultipleIndex(context)
                THEN state[<<"indices", index, HM_namespace, id>>].v
                ELSE state[<<HM_namespace, id>>].v
  IN IF refinements THEN JStr(stored)
     ELSE IF Truthy(props.defaultRefinement) THEN props.defaultRefinement
          ELSE JNull

HM_getCurrentRefinement(props, state, context) ==
  LET id == HM_getId(props)
      index == getIndex(context)
      refinements ==
        \/ hasMultipleIndex(context) /\ Has(state, <<"indices", index, HM_namespace, id>>)
        \/ ~hasMultipleIndex(context) /\ Has(state, <<HM_namespace, id>>)
      stored == IF hasMultipleIndex(context)
                THEN state[<<"indices", index, HM_namespace, id>>].v
                ELSE state[<<HM_namespace, id>>].v
  IN IF refinements
     THEN IF stored = <<>> THEN JNull ELSE JStr(stored)
     ELSE IF Truthy(props.defaultRefinement) THEN props.defaultRefinement
          ELSE JNull

\* SearchParameters.toggleHierarchicalFacetRefinement of algoliasearch-helper, on
\* the list of refinements of the one declared facet: toggling the active path,
\* or an ancestor of it, goes up to the parent of the toggled path (to no
\* refinement when the toggled path is a root one); any other path replaces it.
toggleHierarchicalFacetRefinement(refinements, value, separator) ==
  LET upOneOrMultipleLevel ==
        /\ Len(refinements) > 0
        /\ \/ refinements[1] = value
           \/ IndexOf(refinements[1], value \o separator) = 0
  IN IF upOneOrMultipleLevel
     THEN IF IndexOf(value, separator) = -1 THEN <<>>
          ELSE <<SliceTo(value, LastIndexOf(value, separator))>>
     ELSE <<value>>

HM_getValue(path, props, state, context) ==
  LET currentRefinement == HM_getCurrentRefinement(props, state, context)
      toggled == toggleHierarchicalFacetRefinement(
                   toggleHierarchicalFacetRefinement(<<>>, currentRefinement.s, props.separator),
                   path, props.separator)
  IN IF currentRefinement = JNull THEN JStr(path)
     ELSE IF Len(toggled) = 0 THEN JUndefined ELSE JStr(toggled[1])

\* the object refine builds under indices in multi-index mode
HM_refineIndices(state, index, nextValue) ==
  IF Has(state, <<"indices", index>>)
  THEN ObjSpread(SubObj(state, <<"indices">>),
                 KeyObj(index, KeyObj(HM_namespace,
                   ObjSpread(SubObj(state, <<"indices", index, HM_namespace>>), nextValue))))
  ELSE ObjSpread(SubObj(state, <<"indices">>),
                 KeyObj(index, KeyObj(HM_namespace, nextValue)))

HM_refine(props, state, nextRefinement, context) ==
  LET id == HM_getId(props)
      nextValue == KeyLeaf(id, IF Truthy(nextRefinement) THEN nextRefinement.s ELSE <<>>)
      index == getIndex(context)
  IN IF hasMultipleIndex(context)
     THEN ObjSpread(state, KeyObj("indices", HM_refineIndices(state, index, nextValue)))
     ELSE ObjSpread(state, KeyObj(HM_namespace,
                      ObjSpread(SubObj(state, <<HM_namespace>>), nextValue)))

\* the path array cleanUp hands to unset: its first key is one string, dots included
HM_unsetPath(props, state, context) ==
  LET index == getIndex(context)
      prefix == IF hasMultipleIndex(context) /\ Has(state, <<"indices">>)
                THEN "indices." \o index \o "." \o HM_namespace
                ELSE HM_namespace
  IN <<prefix, HM_getId(props)>>

\* cleanUp unsets in the object it was given and returns that object or a copy:
\* input is the caller's object after the call, result what is returned
HM_cleanUp(props, state, context) ==
  LET unsetState == Omit(state, HM_unsetPath(props, state, context))
  IN [input |-> unsetState,
      result |-> IF IsEmptyAt(unsetState, HM_namespace)
                 THEN Omit(unsetState, <<HM_namespace>>)
                 ELSE unsetState]

\* what searchResults.results[index] is when it is truthy
HasResults(searchResults, index) ==
  searchResults.present /\ index \in DOMAIN searchResults.byIndex

\* props.transformItems, when given, is a function of the host application
ApplyTransformItems(transformItems, items) ==
  IF transformItems = "reverse"
  THEN [i \in 1..Len(items) |-> items[Len(items) + 1 - i]]
  ELSE items

RECURSIVE HM_transformValue(_, _, _, _, _)
HM_transformValue(value, limit, props, state, context) ==
  LET cut == SubSeq(value, 1, IF limit < Len(value) THEN limit ELSE Len(value))
  IN [i \in 1..Len(cut) |->
        [label |-> cut[i].name,
         value |-> HM_getValue(cut[i].path, props, state, context),
         count |-> cut[i].count,
         isRefined |-> cut[i].isRefined,
         items |-> IF cut[i].data.present
                   THEN [present |-> TRUE,
                         list |-> HM_transformValue(cut[i].data.list, limit, props, state, context)]
                   ELSE [present |-> FALSE, list |-> <<>>]]]

HM_getProvidedProps(props, state, searchResults, context) ==
  LET id == HM_getId(props)
      index == getIndex(context)
      isFacetPresent ==
        /\ HasResults(searchResults, index)
        /\ id \in DOMAIN searchResults.byIndex[index].facetValues
      limit == IF props.showMore THEN props.limitMax ELSE props.limitMin
      value == searchResults.byIndex[index].facetValues[id]
      items == IF value.present
               THEN HM_transformValue(value.list, limit, props, state, context)
               ELSE <<>>
  IN IF ~isFacetPresent
     THEN [items |-> <<>>,
           currentRefinement |-> HM_getCurrentRefinement(props, state, context),
           canRefine |-> FALSE]
     ELSE [items |-> IF props.transformItems # "none"
                     THEN ApplyTransformItems(props.transformItems, items)
                     ELSE items,
           currentRefinement |-> HM_getCurrentRefinement(props, state, context),
           canRefine |-> Len(items) > 0]

(***************************************************************************)
(* connectMultiRange.                                                      *)
(***************************************************************************)
stringifyItem(item) ==
  IF item.start = JUndefined /\ item.end = JUndefined THEN <<>>
  ELSE (IF Truthy(item.start) THEN NumToStr(item.start.n) ELSE <<>>)
       \o <<":">>
       \o (IF Truthy(item.end) THEN NumToStr(item.end.n) ELSE <<>>)

\* threw: endStr is undefined when the value holds no ':' and endStr.length raises
parseItem(value) ==
  IF Len(value) = 0 THEN [threw |-> FALSE, start |-> JNull, end |-> JNull]
  ELSE LET parts == Split(value)
       IN IF Len(parts) < 2 THEN [threw |-> TRUE, start |-> JUndefined, end |-> JUndefined]
          ELSE [threw |-> FALSE,
                start |-> IF Len(parts[1]) > 0 THEN ParseInt(parts[1]) ELSE JNull,
                end |-> IF Len(parts[2]) > 0 THEN ParseInt(parts[2]) ELSE JNull]

MR_namespace == "multiRange"

MR_getId(props) == props.attributeName

MR_getCurrentRefinement(props, state, context) ==
  LET id == MR_getId(props)
      index == getIndex(context)
      refinements ==
        \/ hasMultipleIndex(context) /\ Has(state, <<"indices", index, MR_namespace, id>>)
        \/ ~hasMultipleIndex(context) /\ Has(state, <<MR_namespace, id>>)
      stored == IF hasMultipleIndex(context)
                THEN state[<<"indices", index, MR_namespace, id>>].v
                ELSE state[<<MR_namespace, id>>].v
  IN IF refinements THEN JStr(stored)
     ELSE IF Truthy(props.defaultRefinement) THEN props.defaultRefinement
          ELSE JStr(<<>>)

MR_refineIndices(state, index, nextValue) ==
  IF Has(state, <<"indices", index>>)
  THEN ObjSpread(SubObj(state, <<"indices">>),
                 KeyObj(index, KeyObj(MR_namespace,
                   ObjSpread(SubObj(state, <<"indices", index, MR_namespace>>), nextValue))))
  ELSE ObjSpread(SubObj(state, <<"indices">>),
                 KeyObj(index, KeyObj(MR_namespace, nextValue)))

MR_refine(props, state, nextRefinement, context) ==
  LET nextValue == KeyLeaf(MR_getId(props), nextRefinement.s)
      index == getIndex(context)
  IN IF hasMultipleIndex(context)
     THEN ObjSpread(state, KeyObj("indices", MR_refineIndices(state, index, nextValue)))
     ELSE ObjSpread(state, KeyObj(MR_namespace,
                      ObjSpread(SubObj(state, <<MR_namespace>>), nextValue)))

\* the dotted path cleanUp hands to omit
MR_omitPath(props, state, context) ==
  IF hasMultipleIndex(context) /\ Has(state, <<"indices">>)
  THEN <<"indices", getIndex(context), MR_namespace, MR_getId(props)>>
  ELSE <<MR_namespace, MR_getId(props)>>

MR_cleanUp(props, state, context) ==
  LET cleanState == Omit(state, MR_omitPath(props, state, context))
  IN [input |-> state,
      result |-> IF IsEmptyAt(cleanState, MR_namespace)
                 THEN Omit(cleanState, <<MR_namespace>>)
                 ELSE cleanState]

\* results.getFacetByName(attributeName) ? results.getFacetStats(attributeName) : null
MR_stats(results, attributeName) ==
  IF attributeName \in results.facets /\ attributeName \in DOMAIN results.facetStats
  THEN [present |-> TRUE, min |-> JNum(results.facetStats[attributeName].min),
        max |-> JNum(results.facetStats[attributeName].max)]
  ELSE [present |-> FALSE, min |-> JNaN, max |-> JNaN]

isRefinementsRangeIncludesInsideItemRange(stats, start, end) ==
  \/ JGt(stats.min, start) /\ JLt(stats.min, end)
  \/ JGt(stats.max, start) /\ JLt(stats.max, end)

isItemRangeIncludedInsideRefinementsRange(stats, start, end) ==
  \/ JGt(start, stats.min) /\ JLt(start, stats.max)
  \/ JGt(end, stats.min) /\ JLt(end, stats.max)

\* range[i] of value.split(':'), undefined past the end
RangePart(value, i) ==
  LET range == Split(value)
  IN IF i <= Len(range) THEN JStr(range[i]) ELSE JUndefined

itemHasRefinement(attributeName, results, value) ==
  LET stats == MR_stats(results, attributeName)
      start == IF ToNumber(RangePart(value, 1)) = JNum(0) \/ value = <<>>
               THEN JNegInf ELSE ToNumber(RangePart(value, 1))
      end == IF ToNumber(RangePart(value, 2)) = JNum(0) \/ value = <<>>
             THEN JPosInf ELSE ToNumber(RangePart(value, 2))
  IN ~(stats.present
       /\ (\/ isRefinementsRangeIncludesInsideItemRange(stats, start, end)
           \/ isItemRangeIncludedInsideRefinementsRange(stats, start, end)))

\* MR_noRefinement that takes an item for not refinable while there are no results
MR_noRefinement_WithoutResults(props, searchResults, index, value) ==
  IF HasResults(searchResults, index)
  THEN itemHasRefinement(MR_getId(props), searchResults.byIndex[index], value)
  ELSE TRUE

\* the noRefinement flag of a supplied item
MR_noRefinement(props, searchResults, index, value) ==
  IF HasResults(searchResults, index)
  THEN itemHasRefinement(MR_getId(props), searchResults.byIndex[index], value)
  ELSE FALSE

\* MR_withAll that appends the All item whatever the supplied items are
MR_withAll_Always(items, stats) ==
  Append(items, [label |-> "All", value |-> <<>>,
                 isRefined |-> ~(\E i \in 1..Len(items) : items[i].isRefined),
                 noRefinement |-> ~stats.present])

\* the items with the All item pushed when none of them has the value ''
MR_withAll(items, stats) ==
  IF ~(\E i \in 1..Len(items) : items[i].value = <<>>)
  THEN Append(items, [label |-> "All", value |-> <<>>,
                      isRefined |-> ~(\E i \in 1..Len(items) : items[i].isRefined),
                      noRefinement |-> ~stats.present])
  ELSE items

MR_getProvidedProps(props, state, searchResults, context) ==
  LET attributeName == props.attributeName
      currentRefinement == MR_getCurrentRefinement(props, state, context)
      index == getIndex(context)
      mapped == [i \in 1..Len(props.items) |->
                   LET value == stringifyItem(props.items[i])
                   IN [label |-> props.items[i].label,
                       value |-> value,
                       isRefined |-> JStr(value) = currentRefinement,
                       noRefinement |-> MR_noRefinement(props, searchResults, index, value)]]
      stats == IF HasResults(searchResults, index)
               THEN MR_stats(searchResults.byIndex[index], attributeName)
               ELSE [present |-> FALSE, min |-> JNaN, max |-> JNaN]
      items == MR_withAll(mapped, stats)
  IN [items |-> IF props.transformItems # "none"
                THEN ApplyTransformItems(props.transformItems, items)
                ELSE items,
      currentRefinement |-> currentRefinement,
      canRefine |-> Len(items) > 0
                    /\ \E i \in 1..Len(items) : items[i].noRefinement = FALSE]

\* a search-parameters builder: its disjunctive facets and numeric refinements
NoParameters == [disjunctiveFacets |-> {}, numericRefinements |-> {}]

addDisjunctiveFacet(searchParameters, facet) ==
  [searchParameters EXCEPT !.disjunctiveFacets = @ \cup {facet}]

addNumericRefinement(searchParameters, attribute, operator, value) ==
  [searchParameters EXCEPT !.numericRefinements = @ \cup {<<attribute, operator, value>>}]

\* threw: parseItem raised, and so did getSearchParameters; there is no builder
MR_getSearchParameters(searchParameters, props, state, context) ==
  LET attributeName == props.attributeName
      parsed == parseItem(MR_getCurrentRefinement(props, state, context).s)
      withFacet == addDisjunctiveFacet(searchParameters, attributeName)
      withStart == IF Truthy(parsed.start)
                   THEN addNumericRefinement(withFacet, attributeName, ">=", parsed.start)
                   ELSE withFacet
      withEnd == IF Truthy(parsed.end)
                 THEN addNumericRefinement(withStart, attributeName, "<=", parsed.end)
                 ELSE withStart
  IN IF parsed.threw THEN [threw |-> TRUE, searchParameters |-> searchParameters]
     ELSE [threw |-> FALSE, searchParameters |-> withEnd]

(***************************************************************************)
(* connectSortBy.                                                          *)
(***************************************************************************)
SB_getId == "sortBy"

\* undefined outside a multi-index context
SB_getIndex(context) ==
  IF context.multiIndexContext THEN JStr(context.targettedIndex) ELSE JUndefined

\* the key a template string makes of the index: 'undefined' when there is none
SB_indexKey(index) == IF index = JUndefined THEN "undefined" ELSE index.s

SB_getCurrentRefinement(props, state, index) ==
  LET id == SB_getId
  IN IF Has(state, <<"indices", SB_indexKey(index), id>>)
     THEN JStr(state[<<"indices", SB_indexKey(index), id>>].v)
     ELSE IF ~Truthy(index) /\ Has(state, <<id>>) /\ Truthy(JStr(state[<<id>>].v))
          THEN JStr(state[<<id>>].v)
          ELSE IF Truthy(props.defaultRefinement) THEN props.defaultRefinement
               ELSE JNull

SB_getProvidedProps(props, state, context) ==
  LET currentRefinement == SB_getCurrentRefinement(props, state, SB_getIndex(context))
  IN [items |-> [i \in 1..Len(props.items) |->
                   [value |-> props.items[i].value,
                    isRefined |-> JStr(props.items[i].value) = currentRefinement]],
      currentRefinement |-> currentRefinement]

\* SB_refine that stores at the top level in a multi-index context too
SB_refine_TopLevel(props, state, nextRefinement, context) ==
  ObjSpread(state, KeyLeaf(SB_getId, nextRefinement.s))

SB_refine(props, state, nextRefinement, context) ==
  LET id == SB_getId
      sortByState == IF context.multiIndexContext
                     THEN KeyObj("indices", KeyObj(context.targettedIndex,
                                                   KeyLeaf(id, nextRefinement.s)))
                     ELSE KeyLeaf(id, nextRefinement.s)
  IN ObjSpread(state, sortByState)

SB_cleanUp(props, state, context) ==
  IF context.multiIndexContext /\ Has(state, <<"indices">>)
  THEN LET index == context.targettedIndex
       IN ObjSpread(state, KeyObj("indices",
            KeyObj(index, Omit(SubObj(state, <<"indices", index>>), <<SB_getId>>))))
  ELSE Omit(state, <<SB_getId>>)

\* searchParameters.setIndex(selectedIndex): the builder with its index replaced
SB_getSearchParameters(searchParameters, props, state, context) ==
  [searchParameters EXCEPT
     !.index = SB_getCurrentRefinement(props, state, SB_getIndex(context))]

(***************************************************************************)
(* The widgets of the host application and the values they refine with.    *)
(***************************************************************************)
\* defaultProps.separator
DefaultSeparator == <<" ", ">", " ">>

PathA == <<"a">>

PathAB == <<"a", " ", ">", " ", "b">>

PathABC == <<"a", " ", ">", " ", "b", " ", ">", " ", "c">>

HMPaths == {PathA, PathAB, PathABC}

\* the props of a hierarchical menu, the rest as defaultProps sets it
HMProps(attribute, defaultRefinement) ==
  [attributes |-> <<attribute>>, defaultRefinement |-> defaultRefinement,
   separator |-> DefaultSeparator, showMore |-> FALSE, limitMin |-> 10,
   limitMax |-> 20, transformItems |-> "none"]

Item(start, end) == [label |-> "range", start |-> start, end |-> end]

\* the items of the multi-range widgets of the host application
HostItems == <<Item(JNum(1), JNum(2)), Item(JUndefined, JUndefined)>>

MRProps(defaultRefinement) ==
  [attributeName |-> "price", items |-> HostItems, defaultRefinement |-> defaultRefinement,
   transformItems |-> "none"]

IndexAsc == <<"a", "s", "c">>

IndexDesc == <<"d", "e", "s", "c">>

SBProps(defaultRefinement) ==
  [items |-> <<[value |-> IndexAsc], [value |-> IndexDesc]>>,
   defaultRefinement |-> defaultRefinement]

Widget(props, context) == [props |-> props, context |-> context]

\* the widgets the host application mounts: each connector outside an index
\* context and inside one, with and without a default refinement
HMWidgets ==
  {Widget(HMProps("category", JUndefined), SingleIndex),
   Widget(HMProps("brand", JStr(PathAB)), SingleIndex),
   Widget(HMProps("category", JUndefined), MultiIndex("first")),
   Widget(HMProps("brand", JStr(PathAB)), MultiIndex("first"))}

MRWidgets ==
  {Widget(MRProps(JUndefined), SingleIndex),
   Widget(MRProps(JStr(stringifyItem(HostItems[1]))), MultiIndex("first")),
   Widget(MRProps(JUndefined), MultiIndex("second"))}

SBWidgets ==
  {Widget(SBProps(JUndefined), SingleIndex),
   Widget(SBProps(JUndefined), MultiIndex("first")),
   Widget(SBProps(JStr(IndexDesc)), MultiIndex("second"))}

NoCall ==
  [op |-> "none", connector |-> "none", props |-> <<>>, context |-> SingleIndex,
   value |-> JUndefined, clicked |-> JUndefined, current |-> JUndefined,
   input |-> EmptyObject, inputAfter |-> EmptyObject]

Call(op, connector, props, context, value, clicked, current, input, inputAfter) ==
  [op |-> op, connector |-> connector, props |-> props, context |-> context,
   value |-> value, clicked |-> clicked, current |-> current,
   input |-> input, inputAfter |-> inputAfter]

NoCodec == [phase |-> "none"]

NoRender == [phase |-> "none"]

(***************************************************************************)
(* The host application: it holds the search state, hands it to a          *)
(* connector operation of one of its widgets and keeps what is returned.   *)
(***************************************************************************)
Init ==
  /\ searchState \in {EmptyObject, KeyLeaf("query", <<"q">>)}
  /\ last = NoCall
  /\ steps = 0
  /\ codec = NoCodec
  /\ render = NoRender

\* a click on the menu item of a path: the item's value is getValue(path)
HMClick(props, context, path) ==
  /\ steps < MaxSteps
  /\ LET value == HM_getValue(path, props, searchState, context)
     IN /\ searchState' = HM_refine(props, searchState, value, context)
        /\ last' = Call("refine", HM_namespace, props, context, value, JStr(path),
                        HM_getCurrentRefinement(props, searchState, context),
                        searchState, searchState)
  /\ steps' = steps + 1
  /\ UNCHANGED <<codec, render>>

\* the clear thunk of getMetadata: refine(props, nextState, '')
HMClear(props, context) ==
  /\ steps < MaxSteps
  /\ Truthy(HM_getCurrentRefinement(props, searchState, context))
  /\ searchState' = HM_refine(props, searchState, JStr(<<>>), context)
  /\ last' = Call("refine", HM_namespace, props, context, JStr(<<>>), JUndefined,
                  HM_getCurrentRefinement(props, searchState, context),
                  searchState, searchState)
  /\ steps' = steps + 1
  /\ UNCHANGED <<codec, render>>

HMCleanUp(props, context) ==
  /\ steps < MaxSteps
  /\ LET done == HM_cleanUp(props, searchState, context)
     IN /\ searchState' = done.result
        /\ last' = Call("cleanUp", HM_namespace, props, context, JUndefined, JUndefined,
                        HM_getCurrentRefinement(props, searchState, context),
                        searchState, done.input)
  /\ steps' = steps + 1
  /\ UNCHANGED <<codec, render>>

\* the choice of an item of the widget: refine with the item's value
MRRefine(props, context, i) ==
  /\ steps < MaxSteps
  /\ LET value == JStr(stringifyItem(props.items[i]))
     IN /\ searchState' = MR_refine(props, searchState, value, context)
        /\ last' = Call("refine", MR_namespace, props, context, value, JUndefined,
                        MR_getCurrentRefinement(props, searchState, context),
                        searchState, searchState)
  /\ steps' = steps + 1
  /\ UNCHANGED <<codec, render>>

MRCleanUp(props, context) ==
  /\ steps < MaxSteps
  /\ LET done == MR_cleanUp(props, searchState, context)
     IN /\ searchState' = done.result
        /\ last' = Call("cleanUp", MR_namespace, props, context, JUndefined, JUndefined,
                        MR_getCurrentRefinement(props, searchState, context),
                        searchState, done.input)
  /\ steps' = steps + 1
  /\ UNCHANGED <<codec, render>>

SBRefine(props, context, i) ==
  /\ steps < MaxSteps
  /\ LET value == JStr(props.items[i].value)
     IN /\ searchState' = SB_refine(props, searchState, value, context)
        /\ last' = Call("refine", SB_getId, props, context, value, JUndefined,
                        SB_getCurrentRefinement(props, searchState, SB_getIndex(context)),
                        searchState, searchState)
  /\ steps' = steps + 1
  /\ UNCHANGED <<codec, render>>

SBCleanUp(props, context) ==
  /\ steps < MaxSteps
  /\ searchState' = SB_cleanUp(props, searchState, context)
  /\ last' = Call("cleanUp", SB_getId, props, context, JUndefined, JUndefined,
                  SB_getCurrentRefinement(props, searchState, SB_getIndex(context)),
                  searchState, searchState)
  /\ steps' = steps + 1
  /\ UNCHANGED <<codec, render>>

Next ==
  \/ \E w \in HMWidgets :
       \/ \E path \in HMPaths : HMClick(w.props, w.context, path)
       \/ HMClear(w.props, w.context)
       \/ HMCleanUp(w.props, w.context)
  \/ \E w \in MRWidgets :
       \/ \E i \in 1..Len(w.props.items) : MRRefine(w.props, w.context, i)
       \/ MRCleanUp(w.props, w.context)
  \/ \E w \in SBWidgets :
       \/ \E i \in 1..Len(w.props.items) : SBRefine(w.props, w.context, i)
       \/ SBCleanUp(w.props, w.context)

Spec == Init /\ [][Next]_vars

(***************************************************************************)
(* The codec of the multi-range refinement, applied to the items a widget  *)
(* can be given: an item is encoded, the encoding decoded, and the         *)
(* decoding encoded again; and getSearchParameters, which decodes the      *)
(* current refinement of a widget, applied to the strings a search state   *)
(* or a defaultRefinement can hold.                                        *)
(***************************************************************************)
CodecBounds == {JUndefined} \cup {JNum(n) : n \in (0 - MaxNegative)..MaxBound}

\* start <= end when both are given
CodecItems ==
  {it \in {Item(a, b) : a \in CodecBounds, b \in CodecBounds} :
     (it.start # JUndefined /\ it.end # JUndefined) => it.start.n <= it.end.n}

\* the halves of the refinement strings a search state or a defaultRefinement
\* can hold
RefinementHalves == {<<>>, NumToStr(5), NumToStr(10)}

\* '', the strings 'a:b', 'a:', ':b', ':' and the strings without a ':'
RefinementStrings ==
  {a \o <<":">> \o b : a \in RefinementHalves, b \in RefinementHalves}
    \cup RefinementHalves

\* the contexts a queried widget is mounted in
QueryContexts == {SingleIndex, MultiIndex("first")}

\* a widget, and a search state that holds nothing or a string refined for it
IsQuery(call, state) ==
  \E context \in QueryContexts :
    \E default \in {JUndefined} \cup {JStr(s) : s \in RefinementStrings} :
      /\ call = [phase |-> "query", props |-> MRProps(default), context |-> context]
      /\ \/ state = EmptyObject
         \/ \E s \in RefinementStrings :
              state = MR_refine(MRProps(default), EmptyObject, JStr(s), context)

InitCodec ==
  /\ last = NoCall
  /\ steps = 0
  /\ render = NoRender
  /\ \/ /\ searchState = EmptyObject
        /\ codec \in {[phase |-> "item", item |-> it] : it \in CodecItems}
     \/ IsQuery(codec, searchState)

Encode ==
  /\ codec.phase = "item"
  /\ codec' = [phase |-> "encoded", item |-> codec.item,
               value |-> stringifyItem(codec.item)]
  /\ UNCHANGED <<searchState, last, steps, render>>

Decode ==
  /\ codec.phase = "encoded"
  /\ codec' = [phase |-> "decoded", item |-> codec.item, value |-> codec.value,
               parsed |-> parseItem(codec.value)]
  /\ UNCHANGED <<searchState, last, steps, render>>

\* the decoded refinement is encoded again; a decoder that raised has
\* returned nothing to encode
Reencode ==
  /\ codec.phase = "decoded"
  /\ codec' = [phase |-> "reencoded", item |-> codec.item, value |-> codec.value,
               parsed |-> codec.parsed,
               again |-> IF codec.parsed.threw
                         THEN [threw |-> TRUE, value |-> <<>>]
                         ELSE [threw |-> FALSE, value |-> stringifyItem(codec.parsed)]]
  /\ UNCHANGED <<searchState, last, steps, render>>

\* getSearchParameters of the widget on the search state, with the current
\* refinement it reads and the decoding it makes of it
GetSearchParameters ==
  /\ codec.phase = "query"
  /\ LET current == MR_getCurrentRefinement(codec.props, searchState, codec.context)
     IN codec' = [phase |-> "queried", props |-> codec.props, context |-> codec.context,
                  current |-> current,
                  parsed |-> parseItem(current.s),
                  out |-> MR_getSearchParameters(NoParameters, codec.props,
                                                 searchState, codec.context)]
  /\ UNCHANGED <<searchState, last, steps, render>>

NextCodec == Encode \/ Decode \/ Reencode \/ GetSearchParameters

SpecCodec == InitCodec /\ [][NextCodec]_vars

(***************************************************************************)
(* getProvidedProps of the multi-range and of the hierarchical menu, on    *)
(* the props, search states and search results a render can meet.          *)
(***************************************************************************)
\* bounds an item of a rendered widget has: none, 0, 5, 10, ...
RenderBounds == {JUndefined} \cup {JNum(n) : n \in {k \in 0..MaxBound : k % 5 = 0}}

\* start < end when both are given
RenderItems ==
  {it \in {Item(a, b) : a \in RenderBounds, b \in RenderBounds} :
     (it.start # JUndefined /\ it.end # JUndefined) => it.start.n < it.end.n}

RECURSIVE ItemLists(_)
ItemLists(n) ==
  IF n = 0 THEN {<<>>}
  ELSE ItemLists(n - 1)
       \cup {Append(l, it) : l \in {m \in ItemLists(n - 1) : Len(m) = n - 1}, it \in RenderItems}

NoSearchResults == [present |-> FALSE, byIndex |-> <<>>]

\* results of one index: the facets it has, their statistics, their values
IndexResults(facets, facetStats, facetValues) ==
  [facets |-> facets, facetStats |-> facetStats, facetValues |-> facetValues]

SearchResults(index, results) ==
  [present |-> TRUE, byIndex |-> [i \in {index} |-> results]]

Stats(min, max) == [min |-> min, max |-> max]

\* the statistics the price facet is given
PriceStats == {Stats(10, 20), Stats(0, 10), Stats(0, 20), Stats(5, 15)}

MRSearchResults(index) ==
  {NoSearchResults,
   SearchResults("other", IndexResults({}, <<>>, <<>>)),
   SearchResults(index, IndexResults({}, <<>>, <<>>)),
   SearchResults(index, IndexResults({"price"}, <<>>, <<>>))}
  \cup {SearchResults(index, IndexResults({"price"}, [a \in {"price"} |-> st], <<>>)) :
          st \in PriceStats}

RenderCall(connector, props, context, state, searchResults) ==
  [phase |-> "call", connector |-> connector, props |-> props, context |-> context,
   state |-> state, searchResults |-> searchResults]

RenderContexts == {SingleIndex, MultiIndex("first")}

TransformItems == {"none", "reverse"}

\* a render of the multi-range widget
IsMRRenderCall(call) ==
  \E context \in RenderContexts, l \in ItemLists(MaxItems), t \in TransformItems :
    \E state \in {EmptyObject, KeyObj(MR_namespace, KeyLeaf("price", <<":", "1", "0">>))},
       searchResults \in MRSearchResults(getIndex(context)) :
      call = RenderCall(MR_namespace,
                        [MRProps(JUndefined) EXCEPT !.items = l, !.transformItems = t],
                        context, state, searchResults)

NoData == [present |-> FALSE, list |-> <<>>]

Data(list) == [present |-> TRUE, list |-> list]

FacetValue(name, path, count, isRefined, data) ==
  [name |-> name, path |-> path, count |-> count, isRefined |-> isRefined, data |-> data]

\* the values getFacetValues gives for the category facet, sorted by name
CategoryValues ==
  {NoData,
   Data(<<>>),
   Data(<<FacetValue("a", PathA, 3, TRUE,
             Data(<<FacetValue("b", PathAB, 2, FALSE, NoData)>>)),
          FacetValue("d", <<"d">>, 1, FALSE, NoData)>>)}

HMSearchResults(index) ==
  {NoSearchResults,
   SearchResults("other", IndexResults({}, <<>>, <<>>)),
   SearchResults(index, IndexResults({}, <<>>, <<>>))}
  \cup {SearchResults(index, IndexResults({"category"}, <<>>, [a \in {"category"} |-> v])) :
          v \in CategoryValues}

\* a render of the hierarchical menu, with limits that cut the values
IsHMRenderCall(call) ==
  \E context \in RenderContexts, d \in {JUndefined, JStr(PathAB)}, m \in BOOLEAN,
     t \in TransformItems :
    \E state \in {EmptyObject, KeyObj(HM_namespace, KeyLeaf("category", PathA)),
                  KeyObj("indices", KeyObj("first",
                    KeyObj(HM_namespace, KeyLeaf("category", PathAB))))},
       searchResults \in HMSearchResults(getIndex(context)) :
      call = RenderCall(HM_namespace,
                        [HMProps("category", d) EXCEPT !.showMore = m, !.limitMin = 1,
                                                       !.limitMax = 2, !.transformItems = t],
                        context, state, searchResults)

InitRender ==
  /\ searchState = EmptyObject
  /\ last = NoCall
  /\ steps = 0
  /\ codec = NoCodec
  /\ IsMRRenderCall(render) \/ IsHMRenderCall(render)

Rendered(call, out) ==
  [phase |-> "done", connector |-> call.connector, props |-> call.props,
   context |-> call.context, state |-> call.state,
   searchResults |-> call.searchResults, out |-> out]

MRRender ==
  /\ render.phase = "call"
  /\ render.connector = MR_namespace
  /\ render' = Rendered(render, MR_getProvidedProps(render.props, render.state,
                                                    render.searchResults, render.context))
  /\ UNCHANGED <<searchState, last, steps, codec>>

HMRender ==
  /\ render.phase = "call"
  /\ render.connector = HM_namespace
  /\ render' = Rendered(render, HM_getProvidedProps(render.props, render.state,
                                                    render.searchResults, render.context))
  /\ UNCHANGED <<searchState, last, steps, codec>>

NextRender == MRRender \/ HMRender

SpecRender == InitRender /\ [][NextRender]_vars

(***************************************************************************)
(* What the claims speak of.                                               *)
(***************************************************************************)
\* the path of a widget's entry in the search state (spec 4.1)
ResolvedPath(connector, props, context) ==
  LET inner == CASE connector = HM_namespace -> <<HM_namespace, HM_getId(props)>>
                 [] connector = MR_namespace -> <<MR_namespace, MR_getId(props)>>
                 [] OTHER -> <<SB_getId>>
  IN IF context.multiIndexContext
     THEN <<"indices", context.targettedIndex>> \o inner
     ELSE inner

EntryPath(call) == ResolvedPath(call.connector, call.props, call.context)

\* the current refinement the widget of a call reads from a state
CurrentRefinementOf(call, state) ==
  CASE call.connector = HM_namespace ->
         HM_getCurrentRefinement(call.props, state, call.context)
    [] call.connector = MR_namespace ->
         MR_getCurrentRefinement(call.props, state, call.context)
    [] OTHER -> SB_getCurrentRefinement(call.props, state, SB_getIndex(call.context))

\* the refinement of a widget that has no entry: its default, or the neutral value
UnrefinedValue(call) ==
  IF Truthy(call.props.defaultRefinement) THEN call.props.defaultRefinement
  ELSE IF call.connector = MR_namespace THEN JStr(<<>>) ELSE JNull

SameWidget(a, b) ==
  a.connector = b.connector /\ a.props = b.props /\ a.context = b.context

\* new SearchParameters()
FreshParameters == [index |-> JStr(<<>>)]

(***************************************************************************)
(* C1: refine changes only the acting widget's own entry: every other      *)
(* entry of the tree given to refine is in the returned tree with the same *)
(* value (all three connectors, single-index and multi-index mode).        *)
(***************************************************************************)
C1_RefineKeepsOtherEntries ==
  last.op = "refine" =>
    \A q \in DOMAIN last.input :
      ~IsPrefix(EntryPath(last), q) =>
        Has(searchState, q) /\ searchState[q] = last.input[q]

(***************************************************************************)
(* C2: after refine(props, s, v) followed by cleanUp(props, s') of the     *)
(* same widget, the widget's entry is absent at its resolved path and the  *)
(* current refinement read from the returned state is the default          *)
(* refinement if set, and otherwise the neutral value.                     *)
(***************************************************************************)
C2_CleanUpAfterRefineRemovesEntry ==
  [][(last.op = "refine" /\ last'.op = "cleanUp" /\ SameWidget(last, last')) =>
       /\ ~Has(searchState', EntryPath(last'))
       /\ CurrentRefinementOf(last', searchState') = UnrefinedValue(last')]_vars

(***************************************************************************)
(* C3: cleanUp leaves no empty containers: when the widget cleaned up      *)
(* (hierarchicalMenu, multiRange) was the sole occupant of its namespace,  *)
(* the returned state has no key for that namespace where the widget's     *)
(* entry lived, and no namespace key of the returned state maps to an      *)
(* empty object.                                                           *)
(***************************************************************************)
C3_CleanUpLeavesNoEmptyContainer ==
  (last.op = "cleanUp" /\ last.connector \in {HM_namespace, MR_namespace}) =>
    LET entry == EntryPath(last)
        container == SubSeq(entry, 1, Len(entry) - 1)
    IN /\ DOMAIN SubObj(last.input, container) = {<<entry[Len(entry)]>>}
            => ~Has(searchState, container)
       /\ \A q \in DOMAIN searchState :
            (q[Len(q)] \in {HM_namespace, MR_namespace} /\ searchState[q].k = "object")
              => DOMAIN SubObj(searchState, q) # {}

(***************************************************************************)
(* C4: no connector operation mutates its input: after refine or cleanUp   *)
(* returns, the object passed in has the keys and values it had before.    *)
(***************************************************************************)
C4_InputNotMutated ==
  last.op \in {"refine", "cleanUp"} => last.inputAfter = last.input

(***************************************************************************)
(* C5: self-click in the hierarchical menu.                                *)
(***************************************************************************)
\* the last call is a click on the menu item of the active path
SelfClick ==
  /\ last.op = "refine"
  /\ last.connector = HM_namespace
  /\ last.clicked # JUndefined
  /\ last.clicked = last.current

\* the path one level up, read off the paths of the menu
ParentPath(p) == IF p = PathABC THEN PathAB ELSE PathA

HasSeparator(p) == p \in {PathAB, PathABC}

C5_Witness ==
  /\ SelfClick
  /\ last.clicked = JStr(PathA)
  /\ Truthy(last.props.defaultRefinement)
  /\ Has(last.input, EntryPath(last))
  /\ HM_getCurrentRefinement(last.props, searchState, last.context) = JNull

RenderedWithoutResults ==
  /\ render.phase = "done"
  /\ \/ ~render.searchResults.present
     \/ getIndex(render.context) \notin DOMAIN render.searchResults.byIndex

\* C6 as claimed: without results, getProvidedProps of the hierarchical menu
\* and of the multi-range both return canRefine = false for every props and
\* search state, and the hierarchical menu's item list is empty.
C6_NoResultsCannotRefine ==
  RenderedWithoutResults =>
    /\ render.out.canRefine = FALSE
    /\ render.connector = HM_namespace => render.out.items = <<>>

\* C6 as amended: without results, the hierarchical menu returns an empty
\* item list and canRefine = false; the multi-range returns canRefine = false
\* only when props.items is empty, and canRefine = true when it is not (every
\* supplied item has noRefinement = false).
C6_NoResultsHMCannotRefineMRCanIfItems ==
  RenderedWithoutResults =>
    /\ render.connector = HM_namespace =>
         render.out.items = <<>> /\ render.out.canRefine = FALSE
    /\ render.connector = MR_namespace =>
         (render.out.canRefine <=> Len(render.props.items) > 0)

\* a multi-range with items rendered with no results object at all
C6_Witness ==
  /\ RenderedWithoutResults
  /\ ~render.searchResults.present
  /\ render.connector = MR_namespace
  /\ Len(render.props.items) > 0
  /\ render.out.canRefine

(***************************************************************************)
(* C7: the All item of the multi-range.                                    *)
(***************************************************************************)
\* how many items of the list have the empty string for value
EmptyValued(items) == Cardinality({i \in 1..Len(items) : items[i].value = <<>>})

\* how many supplied items have neither bound
Unbounded(items) ==
  Cardinality({i \in 1..Len(items) : items[i].start = JUndefined /\ items[i].end = JUndefined})

\* the derived list is what a render without transformItems returns
RenderedItemsUntransformed ==
  /\ render.phase = "done"
  /\ render.connector = MR_namespace
  /\ render.props.transformItems = "none"

\* C7 as claimed: the derived item list holds exactly one item whose value
\* is the empty string, for every props.items.
C7_ExactlyOneAll ==
  RenderedItemsUntransformed => EmptyValued(render.out.items) = 1

\* C7 as amended: the derived list holds at least one item whose value is
\* the empty string; the All item is appended, once and last, exactly when
\* no supplied item has the empty value; the supplied items that have
\* neither bound all stay, so with k >= 1 of them the list holds k such items.
C7_AllAppendedWhenNoneSupplied ==
  RenderedItemsUntransformed =>
    LET supplied == render.props.items
        items == render.out.items
    IN /\ EmptyValued(items) >= 1
       /\ Unbounded(supplied) = 0 =>
            /\ Len(items) = Len(supplied) + 1
            /\ items[Len(items)].value = <<>>
            /\ items[Len(items)].label = "All"
            /\ EmptyValued(items) = 1
       /\ Unbounded(supplied) > 0 =>
            /\ Len(items) = Len(supplied)
            /\ EmptyValued(items) = Unbounded(supplied)

\* two supplied items without bounds: two items with the empty value
C7_Witness ==
  /\ RenderedItemsUntransformed
  /\ Unbounded(render.props.items) = 2
  /\ EmptyValued(render.out.items) = 2

(***************************************************************************)
(* C9: when results exist for the target index, a bucket with interval     *)
(* (start, end), an absent bound taken as -Infinity or +Infinity, is       *)
(* flagged noRefinement if and only if the facet statistics are absent or  *)
(* neither strict test holds: (a) stats.min or stats.max lies strictly     *)
(* inside (start, end), (b) start or end lies strictly inside              *)
(* (stats.min, stats.max).                                                 *)
(***************************************************************************)
StrictlyInside(x, low, high) == JGt(x, low) /\ JLt(x, high)

\* the statistics of the price facet in the results of the render, if any
RenderedStats ==
  LET results == render.searchResults.byIndex[getIndex(render.context)]
  IN IF "price" \in results.facets /\ "price" \in DOMAIN results.facetStats
     THEN {results.facetStats["price"]}
     ELSE {}

\* the noRefinement flag the claim gives the bucket of a supplied item
ClaimedNoRefinement(item) ==
  LET start == IF item.start = JUndefined THEN JNegInf ELSE item.start
      end == IF item.end = JUndefined THEN JPosInf ELSE item.end
  IN \A st \in RenderedStats :
       /\ ~StrictlyInside(JNum(st.min), start, end)
       /\ ~StrictlyInside(JNum(st.max), start, end)
       /\ ~StrictlyInside(start, JNum(st.min), JNum(st.max))
       /\ ~StrictlyInside(end, JNum(st.min), JNum(st.max))

RenderedWithResults ==
  /\ RenderedItemsUntransformed
  /\ render.searchResults.present
  /\ getIndex(render.context) \in DOMAIN render.searchResults.byIndex

\* C9: with results for the target index, each supplied bucket is flagged
\* noRefinement exactly when the statistics are absent or neither strict
\* test holds between its interval and (stats.min, stats.max).
C9_NoRefinementDetection ==
  RenderedWithResults =>
    \A i \in 1..Len(render.props.items) :
      render.out.items[i].noRefinement <=> ClaimedNoRefinement(render.props.items[i])

\* the same, for the buckets that have no bound equal to 0: these the code
\* flags as C9 says
C9_NonZeroBounds ==
  RenderedWithResults =>
    \A i \in 1..Len(render.props.items) :
      (render.props.items[i].start # JNum(0) /\ render.props.items[i].end # JNum(0)) =>
        (render.out.items[i].noRefinement <=> ClaimedNoRefinement(render.props.items[i]))

(***************************************************************************)
(* C10: codec round trip: for all integers a <= b, 0 and negative values   *)
(* included, and with either or both bounds absent,                        *)
(* parseItem(stringifyItem({start: a, end: b})) is {start: a or null if    *)
(* absent, end: b or null if absent}.                                      *)
(***************************************************************************)
OrNull(v) == IF v = JUndefined THEN JNull ELSE v

\* C10: the decoding of the encoding of an item is the item, with null for
\* an absent bound.
C10_CodecRoundTrip ==
  codec.phase = "decoded" =>
    codec.parsed = [threw |-> FALSE, start |-> OrNull(codec.item.start),
                    end |-> OrNull(codec.item.end)]

\* the same, for the items that have no bound equal to 0
C10_NonZeroBounds ==
  (codec.phase = "decoded" /\ codec.item.start # JNum(0) /\ codec.item.end # JNum(0)) =>
    codec.parsed = [threw |-> FALSE, start |-> OrNull(codec.item.start),
                    end |-> OrNull(codec.item.end)]

(***************************************************************************)
(* C11: stored-string round trip: for every refinement string s that the   *)
(* connector can store (the empty string and every string produced by      *)
(* stringifyItem: 'a:b', 'a:', ':b'), stringifyItem(parseItem(s)) is       *)
(* identical to s.                                                         *)
(***************************************************************************)
\* C11: the encoding of the decoding of a stored string is that string.
C11_StoredStringRoundTrip ==
  codec.phase = "reencoded" =>
    codec.again = [threw |-> FALSE, value |-> codec.value]

\* the same, for the stored strings other than the empty string
C11_NonEmptyStrings ==
  (codec.phase = "reencoded" /\ codec.value # <<>>) =>
    codec.again = [threw |-> FALSE, value |-> codec.value]

\* the empty string comes back as ':'
C11_EmptyStringBecomesColon ==
  (codec.phase = "reencoded" /\ codec.value = <<>>) =>
    codec.again = [threw |-> FALSE, value |-> <<":">>]

(***************************************************************************)
(* C12: the multi-range decoder never throws: for every string found as    *)
(* the current refinement (strings with no ':' such as '10' and strings    *)
(* with a missing half included), parseItem returns a {start, end} record  *)
(* in which each missing half is null, and so getSearchParameters returns  *)
(* a builder instead of raising, for every searchState and                 *)
(* defaultRefinement string.                                               *)
(***************************************************************************)
\* the half of the string before (i = 1) or after (i = 2) the first ':';
\* missing when the string has no such half or the half is empty
HalfMissing(value, i) == Len(Split(value)) < i \/ Len(Split(value)[i]) = 0

\* C12: parseItem returns a record with null for each missing half, and
\* getSearchParameters returns a builder.
C12_DecoderNeverThrows ==
  codec.phase = "queried" =>
    /\ ~codec.parsed.threw
    /\ HalfMissing(codec.current.s, 1) => codec.parsed.start = JNull
    /\ HalfMissing(codec.current.s, 2) => codec.parsed.end = JNull
    /\ ~codec.out.threw

\* the same, for the current refinements that are empty or hold a ':'
C12_StringsWithColon ==
  (codec.phase = "queried"
     /\ (codec.current.s = <<>> \/ IndexOf(codec.current.s, <<":">>) # -1)) =>
    /\ ~codec.parsed.threw
    /\ HalfMissing(codec.current.s, 1) => codec.parsed.start = JNull
    /\ HalfMissing(codec.current.s, 2) => codec.parsed.end = JNull
    /\ ~codec.out.threw

\* a current refinement that is not empty and holds no ':' raises
C12_StringsWithoutColonRaise ==
  (codec.phase = "queried"
     /\ codec.current.s # <<>> /\ IndexOf(codec.current.s, <<":">>) = -1) =>
    codec.parsed.threw /\ codec.out.threw

====
